---- MODULE Spec2Model ----
(***************************************************************************)
(* Model of the rust-101 exercises: the three versions of vec_min          *)
(* (part00, part01, part02), the SomethingOrNothing conversions, the       *)
(* display operations and the line reader of part03.                       *)
(*                                                                         *)
(* Texts read from stdin are sequences of one-character strings; lines     *)
(* written to stdout are strings.  Elements handed to vec_min carry the    *)
(* position they had in the vector (field pos), so that the operand a      *)
(* comparison returns can be told from an equal one.                       *)
(***************************************************************************)
EXTENDS Integers, Sequences, FiniteSets, TLC

VARIABLES prog,    \* which entry point runs: "part00" .. "part03", "convert"
          pc,      \* position of the running entry point
          impl,    \* the Minimum implementation vec_min<T> is instantiated with
          v,       \* the Vec<i32> handed to vec_min (part03: built by read_vec)
          i,       \* number of elements the for loop of vec_min has consumed
          min,     \* the accumulator `min` of vec_min
          stdin,   \* the items the Lines iterator has yielded so far
          out,     \* the lines written to stdout so far
          arg,     \* "convert", "parse": the value the calls started from
          res,     \* "convert", "parse": the value the last call returned
          ncall    \* "convert", "parse": number of calls made

vars == <<prog, pc, impl, v, i, min, stdin, out, arg, res, ncall>>

(* ------------------------------ bounds -------------------------------- *)
MaxVal   == 1   \* vector elements range over -MaxVal..MaxVal and the i32 extremes
MaxVec   == 3   \* longest vector handed to vec_min directly
MaxText  == 3   \* longest text handed to trim().parse::<i32>() directly
MaxLines == 3   \* most items read from stdin (the sample stream apart)
MaxConv  == 2   \* most conversions applied in a row

(* ------------------------------- i32 ---------------------------------- *)
I32Max == 2147483647
I32Min == -I32Max - 1

Elems == (-MaxVal .. MaxVal) \cup {I32Min, I32Max}

(* ------------------- part02: SomethingOrNothing<T> -------------------- *)
Nothing == [tag |-> "Nothing"]
Something(t) == [tag |-> "Something", val |-> t]

None == [tag |-> "None"]
Some(t) == [tag |-> "Some", val |-> t]

\* part00 / part01: NumberOrNothing
Number(n) == [tag |-> "Number", val |-> n]

\* SomethingOrNothing::new
new(o) == IF o = None THEN Nothing ELSE Something(o.val)

\* Variant of to_option that drops the payload
to_option_drop(s) == None

\* SomethingOrNothing::to_option
to_option(s) == IF s = Nothing THEN None ELSE Some(s.val)

(* ---------------------- the Minimum capability ------------------------ *)
\* Variant of i32_min with the comparison reversed
i32_min_reversed(self, b) == IF self.val > b.val THEN self ELSE b

\* impl Minimum for i32: if self < b { self } else { b }
i32_min(self, b) == IF self.val < b.val THEN self ELSE b

\* The trait Minimum admits any fn min(self, b: Self) -> Self.  Besides the
\* i32 implementation the model instantiates vec_min<T> with two that are
\* not commutative.
MinimumImpls == {"i32", "keep_self", "keep_b"}

Minimum_min(im, self, b) ==
    CASE im = "i32"       -> i32_min(self, b)
      [] im = "keep_self" -> self
      [] im = "keep_b"    -> b

\* Variant of min_i32 comparing with <=
min_i32_le(a, b) == IF a.val <= b.val THEN a ELSE b

\* part00: fn min_i32(a, b)
min_i32(a, b) == IF a.val < b.val THEN a ELSE b

\* part01: fn min_32(a, b), nested in vec_min
min_32(a, b) == IF a.val < b.val THEN a ELSE b

(* ----------------------- one pass of each loop ------------------------ *)
\* part00 vec_min, body of `for el in vec`
vec_min00_body(m, el) ==
    IF m = Nothing THEN Number(el) ELSE Number(min_i32(m.val, el))

\* part01 vec_min, body of `for e in v`
vec_min01_body(m, e) ==
    Number(IF m = Nothing THEN e ELSE min_32(m.val, e))

\* Variant of vec_min02_body that never leaves Nothing
vec_min02_body_stuck(im, m, e) ==
    IF m = Nothing THEN Nothing ELSE Something(Minimum_min(im, e, m.val))

\* Variant of vec_min02_body calling n.min(e)
vec_min02_body_swapped(im, m, e) ==
    Something(IF m = Nothing THEN e ELSE Minimum_min(im, m.val, e))

\* part02 vec_min<T: Minimum>, body of `for e in v`: e.min(n)
vec_min02_body(im, m, e) ==
    Something(IF m = Nothing THEN e ELSE Minimum_min(im, e, m.val))

\* The k-th element of the vector, with its position
El(k) == [val |-> v[k], pos |-> k]

(* ------------------------------ display ------------------------------- *)
DigitChars == <<"0", "1", "2", "3", "4", "5", "6", "7", "8", "9">>

\* `{}` of a non-negative integer
RECURSIVE fmt_u(_)
fmt_u(n) ==
    IF n < 10 THEN DigitChars[n + 1]
    ELSE fmt_u(n \div 10) \o DigitChars[(n % 10) + 1]

\* `{}` of an i32: a '-' and the magnitude, which need not fit an i32
fmt_i32(n) ==
    IF n >= 0 THEN fmt_u(n)
    ELSE LET last == (10 - (n % 10)) % 10
             rest == -((n + last) \div 10)
         IN  "-" \o (IF rest = 0 THEN "" ELSE fmt_u(rest)) \o DigitChars[last + 1]

\* part00: print_number_or_nothing
print_number_or_nothing(n) ==
    IF n = Nothing THEN "THe number is: <nothing>"
    ELSE "The number is: " \o fmt_i32(n.val.val)

\* part01: NumberOrNothing::print
print01(n) ==
    IF n = Nothing THEN "The number is: <nothing>"
    ELSE "The number is: " \o fmt_i32(n.val.val)

\* part02: NumberOrNothing::print
print02(n) ==
    IF n = Nothing THEN "The number is: <nothing>"
    ELSE "The number is: " \o fmt_i32(n.val.val)

(* ------------------- part03: line.trim().parse::<i32>() ---------------- *)
WhiteSpace == {" ", "\t"}

RECURSIVE trim_start(_)
trim_start(s) ==
    IF s # <<>> /\ Head(s) \in WhiteSpace THEN trim_start(Tail(s)) ELSE s

RECURSIVE trim_end(_)
trim_end(s) ==
    IF s # <<>> /\ s[Len(s)] \in WhiteSpace
    THEN trim_end(SubSeq(s, 1, Len(s) - 1)) ELSE s

\* Variant of trim that trims the start only
trim_start_only(s) == trim_start(s)

\* str::trim
trim(s) == trim_end(trim_start(s))

Ok(n) == [ok |-> TRUE, num |-> n]
Err(k) == [ok |-> FALSE, kind |-> k]

IsDigit(c) == \E d \in 0 .. 9 : DigitChars[d + 1] = c
to_digit(c) == CHOOSE d \in 0 .. 9 : DigitChars[d + 1] = c

\* The digit loop of i32::from_str: checked_mul(10), then checked_add /
\* checked_sub of the digit; a character that is no digit is InvalidDigit.
RECURSIVE parse_digits(_, _, _)
parse_digits(ds, result, neg) ==
    IF ds = <<>> THEN Ok(result)
    ELSE IF ~IsDigit(Head(ds)) THEN Err("InvalidDigit")
    ELSE LET d == to_digit(Head(ds)) IN
         IF neg
         THEN IF result < -(I32Max \div 10) THEN Err("NegOverflow")
              ELSE IF result * 10 < I32Min + d THEN Err("NegOverflow")
              ELSE parse_digits(Tail(ds), result * 10 - d, neg)
         ELSE IF result > I32Max \div 10 THEN Err("PosOverflow")
              ELSE IF result * 10 > I32Max - d THEN Err("PosOverflow")
              ELSE parse_digits(Tail(ds), result * 10 + d, neg)

\* str::parse::<i32>
parse_i32(src) ==
    IF src = <<>> THEN Err("Empty")
    ELSE IF Len(src) = 1 /\ Head(src) \in {"+", "-"} THEN Err("InvalidDigit")
    ELSE LET signed == Head(src) \in {"+", "-"}
         IN  parse_digits(IF signed THEN Tail(src) ELSE src, 0, Head(src) = "-")

\* Variant of read_vec_push that pushes 0 for a line that does not parse
read_vec_push_default(vec, r) == Append(vec, IF r.ok THEN r.num ELSE 0)

\* read_vec, the match on the parse result: what becomes of vec
read_vec_push(vec, r) == IF r.ok THEN Append(vec, r.num) ELSE vec

\* read_vec, the match on the parse result: what is written to stdout
read_vec_say(o, r) ==
    IF r.ok THEN o ELSE Append(o, "What did I say about numbers?")

\* read_vec, `line.unwrap()`: where control goes for the item read
read_vec_unwrap(item) == IF item.ok THEN "read" ELSE "panicked"

(* ------------------------------- inputs ------------------------------- *)
\* The vectors the hard-coded read_vec of part00, part01 and part02 return
read_vec00 == <<18, 5, 7, 9, 27>>
read_vec01 == <<18, 5, 7, 2, 9, 27>>
read_vec02 == <<18, 5, 7, 1, 9, 27>>

Vecs == UNION {[1 .. n -> Elems] : n \in 0 .. MaxVec}

Alphabet == {"0", "1", "-", "+", " ", "a"}

I32MaxText == <<"2", "1", "4", "7", "4", "8", "3", "6", "4", "7">>
I32OverText == <<"2", "1", "4", "7", "4", "8", "3", "6", "4", "8">>
I32UnderText == <<"2", "1", "4", "7", "4", "8", "3", "6", "4", "9">>

BoundaryTexts ==
    { I32MaxText, I32OverText, <<"+">> \o I32MaxText, <<"+">> \o I32OverText,
      <<"-">> \o I32OverText, <<"-">> \o I32UnderText,
      <<"0", "0">> \o I32MaxText, <<"-", "0">> \o I32UnderText,
      <<"9", "9", "9", "9", "9", "9", "9", "9", "9", "9", "9">>,
      <<"\t", "-", "7", " ", "\t">>, <<"1", " ", "1">> }

\* Texts handed to trim().parse::<i32>() directly
Texts == UNION {[1 .. n -> Alphabet] : n \in 0 .. MaxText} \cup BoundaryTexts

\* Texts of the lines the Lines iterator may yield
LineTexts ==
    { <<>>, <<"7">>, <<"-", "1">>, <<"+", "1">>, <<" ", "5", " ">>,
      <<"a", "b", "c">>, <<"-">>, I32OverText, <<"-">> \o I32OverText }

Line(t) == [ok |-> TRUE, text |-> t]
IoError == [ok |-> FALSE]

\* What Lines::next() may yield: Some(Ok(line)) or Some(Err(e))
Items == {Line(t) : t \in LineTexts} \cup {IoError}

\* The stream "18\n5\nabc\n7\n\n9\n27\n"
SampleInput ==
    << Line(<<"1", "8">>), Line(<<"5">>), Line(<<"a", "b", "c">>), Line(<<"7">>),
       Line(<<>>), Line(<<"9">>), Line(<<"2", "7">>) >>

IsPrefix(s, t) == Len(s) <= Len(t) /\ SubSeq(t, 1, Len(s)) = s

Options == {None} \cup {Some(t) : t \in Elems}
SomethingOrNothings == {Nothing} \cup {Something(t) : t \in Elems}

Progs == {"part00", "part01", "part02", "part03", "convert", "parse"}

(* -------------------------------- Init -------------------------------- *)
Init ==
    /\ prog \in Progs
    /\ pc = CASE prog \in {"part00", "part01", "part02"} -> "vec_min"
            [] prog = "part03" -> "start"
            [] OTHER -> "call"
    /\ impl \in (IF prog = "part02" THEN MinimumImpls ELSE {"i32"})
    /\ v \in CASE prog = "part00" -> Vecs \cup {read_vec00}
             [] prog = "part01" -> Vecs \cup {read_vec01}
             [] prog = "part02" -> Vecs \cup {read_vec02}
             [] OTHER -> {<<>>}
    /\ i = 0
    /\ min = Nothing
    /\ stdin = <<>>
    /\ out = <<>>
    /\ arg \in CASE prog = "convert" -> Options \cup SomethingOrNothings
               [] prog = "parse" -> Texts
               [] OTHER -> {None}
    /\ res = arg
    /\ ncall = 0

(* ------------------------- part00: main ------------------------------- *)
vec_min00_loop ==
    /\ prog = "part00" /\ pc = "vec_min" /\ i < Len(v)
    /\ min' = vec_min00_body(min, El(i + 1))
    /\ i' = i + 1
    /\ UNCHANGED <<prog, pc, impl, v, stdin, out, arg, res, ncall>>

vec_min00_return ==
    /\ prog = "part00" /\ pc = "vec_min" /\ i = Len(v)
    /\ pc' = "print"
    /\ UNCHANGED <<prog, impl, v, i, min, stdin, out, arg, res, ncall>>

main00_print ==
    /\ prog = "part00" /\ pc = "print"
    /\ out' = Append(out, print_number_or_nothing(min))
    /\ pc' = "done"
    /\ UNCHANGED <<prog, impl, v, i, min, stdin, arg, res, ncall>>

(* ------------------------- part01: main ------------------------------- *)
vec_min01_loop ==
    /\ prog = "part01" /\ pc = "vec_min" /\ i < Len(v)
    /\ min' = vec_min01_body(min, El(i + 1))
    /\ i' = i + 1
    /\ UNCHANGED <<prog, pc, impl, v, stdin, out, arg, res, ncall>>

vec_min01_return ==
    /\ prog = "part01" /\ pc = "vec_min" /\ i = Len(v)
    /\ pc' = "print"
    /\ UNCHANGED <<prog, impl, v, i, min, stdin, out, arg, res, ncall>>

main01_print ==
    /\ prog = "part01" /\ pc = "print"
    /\ out' = Append(out, print01(min))
    /\ pc' = "done"
    /\ UNCHANGED <<prog, impl, v, i, min, stdin, arg, res, ncall>>

(* -------------------- part02: main; part03 uses both ------------------ *)
vec_min02_loop ==
    /\ prog \in {"part02", "part03"} /\ pc = "vec_min" /\ i < Len(v)
    /\ min' = vec_min02_body(impl, min, El(i + 1))
    /\ i' = i + 1
    /\ UNCHANGED <<prog, pc, impl, v, stdin, out, arg, res, ncall>>

\* print exists for SomethingOrNothing<i32> only
vec_min02_return ==
    /\ prog \in {"part02", "part03"} /\ pc = "vec_min" /\ i = Len(v)
    /\ pc' = IF impl = "i32" THEN "print" ELSE "done"
    /\ UNCHANGED <<prog, impl, v, i, min, stdin, out, arg, res, ncall>>

main02_print ==
    /\ prog \in {"part02", "part03"} /\ pc = "print"
    /\ out' = Append(out, print02(min))
    /\ pc' = "done"
    /\ UNCHANGED <<prog, impl, v, i, min, stdin, arg, res, ncall>>

(* ------------------------- part03: read_vec --------------------------- *)
read_vec_prompt ==
    /\ prog = "part03" /\ pc = "start"
    /\ out' = Append(out, "Enter a list of numbers; one per line")
    /\ pc' = "read"
    /\ UNCHANGED <<prog, impl, v, i, min, stdin, arg, res, ncall>>

\* One turn of `for line in stdin.lock().lines()`
read_vec_line ==
    /\ prog = "part03" /\ pc = "read"
    /\ \E item \in Items \cup {SampleInput[k] : k \in 1 .. Len(SampleInput)} :
          /\ \/ Len(stdin) < MaxLines
             \/ IsPrefix(Append(stdin, item), SampleInput)
          /\ stdin' = Append(stdin, item)
          /\ pc' = read_vec_unwrap(item)
          /\ IF item.ok
             THEN LET r == parse_i32(trim(item.text))
                  IN  /\ v' = read_vec_push(v, r)
                      /\ out' = read_vec_say(out, r)
             ELSE UNCHANGED <<v, out>>
    /\ UNCHANGED <<prog, impl, i, min, arg, res, ncall>>

\* Lines::next() yields None: read_vec returns vec, main calls vec_min(vec)
read_vec_end ==
    /\ prog = "part03" /\ pc = "read"
    /\ pc' = "vec_min"
    /\ UNCHANGED <<prog, impl, v, i, min, stdin, out, arg, res, ncall>>

(* ------------------ the conversions, called in a row ------------------ *)
call_new ==
    /\ prog = "convert" /\ pc = "call" /\ ncall < MaxConv
    /\ res \in Options
    /\ res' = new(res)
    /\ ncall' = ncall + 1
    /\ UNCHANGED <<prog, pc, impl, v, i, min, stdin, out, arg>>

call_to_option ==
    /\ prog = "convert" /\ pc = "call" /\ ncall < MaxConv
    /\ res \in SomethingOrNothings
    /\ res' = to_option(res)
    /\ ncall' = ncall + 1
    /\ UNCHANGED <<prog, pc, impl, v, i, min, stdin, out, arg>>

(* ------------------ line.trim().parse::<i32>(), alone ----------------- *)
call_parse ==
    /\ prog = "parse" /\ pc = "call"
    /\ res' = parse_i32(trim(arg))
    /\ ncall' = 1
    /\ pc' = "done"
    /\ UNCHANGED <<prog, impl, v, i, min, stdin, out, arg>>

Next ==
    \/ vec_min00_loop \/ vec_min00_return \/ main00_print
    \/ vec_min01_loop \/ vec_min01_return \/ main01_print
    \/ vec_min02_loop \/ vec_min02_return \/ main02_print
    \/ read_vec_prompt \/ read_vec_line \/ read_vec_end
    \/ call_new \/ call_to_option
    \/ call_parse

Spec == Init /\ [][Next]_vars

(* ====================== properties of the program ===================== *)
VecMinProgs == {"part00", "part01", "part02", "part03"}
Returned == prog \in VecMinProgs /\ pc \in {"print", "done"}
Last(s) == s[Len(s)]
MinIndices == {k \in 1 .. Len(v) : \A j \in 1 .. Len(v) : v[k] <= v[j]}

(* ------------------------------- C1 ----------------------------------- *)
\* C1: for every non-empty vector of i32, what vec_min returns carries a
\* value m that is an element of the vector and is <= every element of it.
C1_MinimumOfNonEmpty ==
    (Returned /\ impl = "i32" /\ v # <<>>) =>
        /\ min.tag = (IF prog \in {"part00", "part01"} THEN "Number" ELSE "Something")
        /\ \E k \in 1 .. Len(v) : min.val.val = v[k]
        /\ \A k \in 1 .. Len(v) : min.val.val <= v[k]

C1_Witness ==
    /\ prog = "part02" /\ impl = "i32" /\ pc = "print"
    /\ v = read_vec02 /\ min.tag = "Something" /\ min.val.val = 1

(* ------------------------------- C2 ----------------------------------- *)
\* C2: vec_min returns Nothing if and only if the vector is empty, and an
\* accumulator that has become Something never returns to Nothing.
C2_NothingIffEmpty ==
    /\ [](Returned => (min = Nothing <=> v = <<>>))
    /\ [][(prog \in VecMinProgs /\ min # Nothing) => min' # Nothing]_vars

C2_Witness ==
    /\ prog = "part02" /\ impl = "i32" /\ pc = "print"
    /\ v = <<>> /\ min = Nothing

(* ------------------------------- C3 ----------------------------------- *)
\* The values of the lines of `items` that parse, in the order read
RECURSIVE ParsedValues(_)
ParsedValues(items) ==
    IF items = <<>> THEN <<>>
    ELSE LET r == IF Head(items).ok THEN parse_i32(trim(Head(items).text))
                  ELSE Err("io")
         IN  (IF r.ok THEN <<r.num>> ELSE <<>>) \o ParsedValues(Tail(items))

\* C3: read_vec holds exactly the values of the lines read so far that
\* parse, in the order read; a line that does not parse appends nothing and
\* does not end the loop (only a failed read does); the sample stream
\* 18, 5, abc, 7, <empty>, 9, 27 yields [18, 5, 7, 9, 27].
C3_ReadVecKeepsParsedLines ==
    prog = "part03" =>
        /\ v = ParsedValues(stdin)
        /\ (stdin # <<>> /\ Last(stdin).ok) => pc # "panicked"
        /\ stdin = SampleInput => v = <<18, 5, 7, 9, 27>>

C3_Witness ==
    /\ prog = "part03" /\ pc = "vec_min"
    /\ stdin = SampleInput /\ v = <<18, 5, 7, 9, 27>>

(* ------------------------------- C4 ----------------------------------- *)
LexLE(a, b) ==
    \/ a = b
    \/ \E k \in 1 .. Len(a) :
          /\ to_digit(a[k]) < to_digit(b[k])
          /\ \A j \in 1 .. k - 1 : a[j] = b[j]

RECURSIVE StripZeros(_)
StripZeros(ds) ==
    IF ds # <<>> /\ Head(ds) = "0" THEN StripZeros(Tail(ds)) ELSE ds

\* The digits `body` denote a value of the 32-bit signed range
InRange(neg, body) ==
    LET sig == StripZeros(body)
    IN  \/ Len(sig) < 10
        \/ Len(sig) = 10 /\ LexLE(sig, IF neg THEN I32OverText ELSE I32MaxText)

\* t is an optional sign out of `signs`, then one or more decimal digits,
\* denoting a value in range
Literal(t, signs) ==
    LET body == IF Head(t) \in signs THEN Tail(t) ELSE t
    IN  /\ body # <<>>
        /\ \A k \in 1 .. Len(body) : IsDigit(body[k])
        /\ InRange(Head(t) = "-", body)

\* line is whitespace, such a literal, whitespace
Accepted(line, signs) ==
    \E lo \in 1 .. Len(line), hi \in 1 .. Len(line) :
        /\ lo <= hi
        /\ \A k \in 1 .. lo - 1 : line[k] \in WhiteSpace
        /\ \A k \in hi + 1 .. Len(line) : line[k] \in WhiteSpace
        /\ Literal(SubSeq(line, lo, hi), signs)

NumLines(items, signs, acc) ==
    Cardinality({k \in 1 .. Len(items) :
                    items[k].ok /\ (Accepted(items[k].text, signs) <=> acc)})

NumDiags == Cardinality({k \in 1 .. Len(out) : out[k] = "What did I say about numbers?"})

ParseDecides(signs) ==
    /\ (prog = "parse" /\ pc = "done") => (res.ok <=> Accepted(arg, signs))
    /\ prog = "part03" =>
          /\ Len(v) = NumLines(stdin, signs, TRUE)
          /\ NumDiags = NumLines(stdin, signs, FALSE)

\* C4 (as stated): a line is accepted if and only if, trimmed, it is an
\* optional '-' followed by one or more digits, in the i32 range; every
\* other line, one with a leading '+' included, is rejected with a diagnostic.
C4_AcceptsMinusOnly == ParseDecides({"-"})

\* C4 (amended): a line is accepted if and only if, trimmed, it is an
\* optional '-' or '+' followed by one or more digits, in the i32 range;
\* every other line is rejected with a diagnostic.
C4_AcceptsOptionalSign == ParseDecides({"-", "+"})

C4_Witness ==
    /\ prog = "parse" /\ pc = "done"
    /\ arg = <<" ", "+", "1">> /\ res = Ok(1)

(* ------------------------------- C5 ----------------------------------- *)
\* C5: when reading a line fails with an I/O error, read_vec ends the loop
\* and returns the values accumulated so far; the process does not end
\* abnormally.
C5_IoErrorEndsLoop ==
    (prog = "part03" /\ stdin # <<>> /\ ~Last(stdin).ok) =>
        /\ pc \in {"vec_min", "print", "done"}
        /\ v = ParsedValues(stdin)

(* ------------------------------- C6 ----------------------------------- *)
RECURSIVE Diags(_)
Diags(items) ==
    IF items = <<>> THEN <<>>
    ELSE (IF Head(items).ok /\ ~parse_i32(trim(Head(items).text)).ok
          THEN <<"What did I say about numbers?">> ELSE <<>>)
         \o Diags(Tail(items))

\* C6: in every run of part03 the output is one prompt line before any
\* line is read, then one diagnostic per malformed line, then one result
\* line once the reduction is complete, and the program has then ended
\* normally.
C6_OutputOrder ==
    prog = "part03" =>
        /\ pc = "start" => (out = <<>> /\ stdin = <<>>)
        /\ pc \in {"read", "vec_min", "print"} =>
              out = <<"Enter a list of numbers; one per line">> \o Diags(stdin)
        /\ pc \notin {"start", "read", "vec_min", "print"} =>
              /\ pc = "done"
              /\ i = Len(v)
              /\ out = <<"Enter a list of numbers; one per line">> \o Diags(stdin)
                          \o <<print02(min)>>

(* ------------------------------- C7 ----------------------------------- *)
\* C7: every display operation writes "The number is: <nothing>" for
\* Nothing and "The number is: " followed by the decimal rendering of v for
\* Something(v) / Number(v).
C7_DisplayText ==
    (prog \in VecMinProgs /\ pc = "done" /\ impl = "i32") =>
        Last(out) = IF min = Nothing THEN "The number is: <nothing>"
                    ELSE "The number is: " \o fmt_i32(min.val.val)

(* ------------------------------- C8 ----------------------------------- *)
\* C8: new maps None to Nothing and Some(t) to Something(t), to_option maps
\* them back, and either round trip returns the value it started from.
C8_RoundTrip ==
    prog = "convert" =>
        /\ ncall % 2 = 0 => res = arg
        /\ ncall % 2 = 1 =>
              /\ arg.tag = "None" => res = [tag |-> "Nothing"]
              /\ arg.tag = "Some" => res = [tag |-> "Something", val |-> arg.val]
              /\ arg.tag = "Nothing" => res = [tag |-> "None"]
              /\ arg.tag = "Something" => res = [tag |-> "Some", val |-> arg.val]

C8_Witness ==
    /\ prog = "convert" /\ ncall = 2
    /\ arg = [tag |-> "Some", val |-> 1] /\ res = arg

(* ------------------------------- C9 ----------------------------------- *)
Vec02Step ==
    /\ prog \in {"part02", "part03"} /\ pc = "vec_min"
    /\ i' = i + 1 /\ min # Nothing

\* C9 (as stated): a step of the generic vec_min with accumulator
\* Something(current) and element e leaves the value of
\* min(current, e): the accumulator is the first operand.
C9_AccumulatorFirst ==
    [][Vec02Step =>
         min'.val.val = Minimum_min(impl, min.val, El(i + 1)).val]_vars

\* C9 (amended): such a step leaves Something(e.min(current)): the new
\* element is the first operand (self), the accumulator the second.
C9_ElementFirst ==
    [][Vec02Step =>
         min' = [tag |-> "Something",
                 val |-> Minimum_min(impl, El(i + 1), min.val)]]_vars

C9_Witness ==
    /\ prog = "part02" /\ impl = "keep_self" /\ pc = "done"
    /\ Len(v) = 3 /\ v[1] # v[3] /\ v[2] # v[3]
    /\ min = [tag |-> "Something", val |-> [val |-> v[3], pos |-> 3]]

(* ------------------------------- C10 ---------------------------------- *)
EarliestMin == CHOOSE k \in MinIndices : \A j \in MinIndices : k <= j
LatestMin == CHOOSE k \in MinIndices : \A j \in MinIndices : k >= j

\* C10 (as stated): of the elements of minimal value every vec_min returns
\* the one with the smallest index.
C10_FirstSeenWins ==
    (Returned /\ impl = "i32" /\ v # <<>>) => min.val.pos = EarliestMin

\* C10 (amended): of the elements of minimal value the vec_min of part02
\* returns the one with the smallest index, the vec_min of part00 and of
\* part01 the one with the largest index.
C10_TiePolicy ==
    (Returned /\ impl = "i32" /\ v # <<>>) =>
        min.val.pos = IF prog \in {"part00", "part01"} THEN LatestMin
                      ELSE EarliestMin

C10_Witness ==
    /\ prog = "part00" /\ pc = "print"
    /\ v = <<0, 1, 0>> /\ min.val.pos = 3

====
